---- MODULE Spec2Model ----
(***************************************************************************)
(* nextjs-telefish: the process-wide playlist cache of src/lib/bittv.ts    *)
(* (fetchPlaylist, triggerBackgroundUpdate, performFetch, fetchAndDecrypt, *)
(* getLatestVersion) and the streaming proxy handlers of                   *)
(* src/app/api/playlist/{proxy,stream}/route.ts, as state machines.        *)
(***************************************************************************)
EXTENDS Integers, Sequences, FiniteSets, TLC

(***************************************************************************)
(* Bounds of the model.                                                    *)
(***************************************************************************)
\* GET /api/playlist requests received in one behaviour
MaxCalls == 3
\* performFetch runs started in one behaviour
MaxRuns == 3
\* performFetch runs in flight at the same time
MaxInFlight == 2
\* how many freshness windows the clock may advance
MaxWindows == 2
\* items (lines or elements) in an upstream body
MaxLines == 2

\* the longest string given to the codec, in characters
MaxChars == 2

\* the most lines of a playlist, or elements below the root of an MPD,
\* given to a manifest rewriter
MaxItems == 3

(***************************************************************************)
(* Program constants.                                                      *)
(***************************************************************************)
\* bittv.ts:278  const CACHE_DURATION = 1000 * 60 * 5
CACHE_DURATION == 1000 * 60 * 5

\* bittv.ts:283,295,298  the fallback version of getLatestVersion
FALLBACK_VERSION == "v216"

\* JavaScript's null; a record so that it compares with snapshots and results
NULL == [null |-> TRUE]

\* a promise that has rejected
REJECTED == [rejected |-> TRUE]


\* the clock starts after the epoch: Date.now() > 0 = lastFetchTime
MaxNow == 1 + MaxWindows * CACHE_DURATION

VARIABLES
    now,             \* the wall clock read by Date.now()
    cachedPlaylist,  \* bittv.ts:276  let cachedPlaylist: PlaylistData | null
    lastFetchTime,   \* bittv.ts:277  let lastFetchTime = 0
    isUpdating,      \* bittv.ts:316  let isUpdating = false
    runs,            \* the performFetch() invocations, in start order
    nCalls,          \* how many GET /api/playlist requests have arrived
    lastReply,       \* the response most recently sent by GET /api/playlist
    lastRun,         \* the performFetch run that returned most recently, with its locals
    req,             \* the proxy request being handled
    dec              \* the payload text being decoded, with the outcome

vars == <<now, cachedPlaylist, lastFetchTime, isUpdating, runs, nCalls, lastReply, lastRun, req,
          dec>>

(***************************************************************************)
(* Payload texts.  The text of a category payload (encryptedInfo) is       *)
(* described by what the scanner can observe of it: its length, the offset *)
(* k at which the encoded payload starts, the text k0 yields there, and    *)
(* whether the outer base64 text ends in "=" padding (Buffer.from stops    *)
(* decoding at the first "=", so every offset before k then decodes to the *)
(* same text).  k = -1: nothing in the text decodes.  plain is the value  *)
(* of the text itself when it is unobfuscated JSON.                        *)
(***************************************************************************)
\* a parsed JSON value: its top-level shape and the channel array it holds
Json(shape, list) == [shape |-> shape, list |-> list]

\* bittv.ts:272  JSON.stringify({ error: "Decryption failed" }), parsed
DecryptionFailed == Json("error", <<>>)

\* the trimmed result of k0 on one substring: "noise" does not start with "{";
\* "object" is a JSON object text; "object+tail" is one followed by garbage
\* without "}"; "object+brace" is one followed by garbage with a "}" in it;
\* "broken" starts with "{" and is not JSON up to its last "}"
Text(kind, json) == [kind |-> kind, json |-> json]

\* the text is not JSON
NotJson == Json("none", <<>>)

Noise == Text("noise", NotJson)

\* bittv.ts:253-259  startsWith("{"), lastIndexOf("}"), JSON.parse(candidate)
Parses(text) == text.kind \in {"object", "object+tail"}

Blob(len, k, text, padded, plain) ==
    [len |-> len, k |-> k, text |-> text, padded |-> padded, plain |-> plain]

\* bittv.ts:249-251  k0(encryptedInfo.substring(i)).trim()
Decoded(blob, i) ==
    IF blob.k >= 0 /\ (i = blob.k \/ (blob.padded /\ i < blob.k))
    THEN blob.text
    ELSE Noise

\* bittv.ts:244  the offset tried first
COMMON_OFFSET == 98

\* bittv.ts:244  Array.from({ length: 1000 }, ...)
OFFSET_CEILING == 1000

\* bittv.ts:244  offsetsToCheck: 98, then 0 .. 999 without 98
offsetsToCheck ==
    [j \in 1 .. OFFSET_CEILING |->
        IF j = 1 THEN COMMON_OFFSET
        ELSE IF j - 2 < COMMON_OFFSET THEN j - 2
        ELSE j - 1]

\* the least member of a non-empty set of integers
First(S) == CHOOSE i \in S : \A j \in S : i <= j

\* bittv.ts:246-270  the loop: the first position of offsetsToCheck at which it
\* ends, by the break of line 247 or by the return of line 261
StopsAt(encryptedInfo) ==
    {j \in DOMAIN offsetsToCheck :
        \/ offsetsToCheck[j] >= encryptedInfo.len
        \/ Parses(Decoded(encryptedInfo, offsetsToCheck[j]))}

\* the outcome of a scan: the offset that succeeded (-1 for none; bittv.ts logs
\* it at line 260), the text returned, and how many substrings went through k0
Scanned(offset, json, tried) == [offset |-> offset, json |-> json, tried |-> tried]

\* bittv.ts:240-273
decryptPlaylist(encryptedInfo) ==
    IF StopsAt(encryptedInfo) = {}
    THEN Scanned(-1, DecryptionFailed, OFFSET_CEILING)
    ELSE LET j == First(StopsAt(encryptedInfo))
             i == offsetsToCheck[j]
         IN IF i >= encryptedInfo.len
            THEN Scanned(-1, DecryptionFailed, j - 1)
            ELSE Scanned(i, Decoded(encryptedInfo, i).json, j)

\* decrypt.js:24  for (let i = 0; i < 200; i++)
SCAN_LIMIT == 200

\* decrypt.js:23-45  scan: ascending from 0, no break, null when nothing parses
scan(encryptedInfo) ==
    LET hits == {i \in 0 .. SCAN_LIMIT - 1 : Parses(Decoded(encryptedInfo, i))}
    IN IF hits = {}
       THEN Scanned(-1, Json("null", <<>>), SCAN_LIMIT)
       ELSE Scanned(First(hits), Decoded(encryptedInfo, First(hits)).json, First(hits) + 1)

\* bittv.ts:309  parsed.info || []
InfoOrEmpty(parsed) == IF parsed.shape = "info" THEN parsed.list ELSE <<>>

\* no payload text: the fetch did not deliver one
NoBlob == Blob(0, -1, Noise, FALSE, NotJson)

\* a payload as the upstream publishes it: the encoded JSON { info: [...] }
\* behind a prefix of COMMON_OFFSET characters
Published(info) == Blob(COMMON_OFFSET + 264, COMMON_OFFSET, Text("object", Json("info", info)), TRUE, NotJson)

\* the decoding job: nothing to decode
IdleDec == [pc |-> "idle"]

(***************************************************************************)
(* Upstream answers.                                                       *)
(***************************************************************************)
\* what the GitHub contents listing can answer to getLatestVersion
VersionAnswers == {"http_error", "network_error", "no_version_dir", "v216", "v217"}

\* what raw.githubusercontent.com can answer to one category payload fetch:
\* a network error, a non-OK status, or a body that decodes to JSON with the
\* given `info` array
PayloadAnswers(cat) ==
    { [kind |-> "network_error", text |-> NoBlob],
      [kind |-> "http_error",    text |-> NoBlob],
      [kind |-> "encoded",       text |-> Published(<<cat>>)] }

(***************************************************************************)
(* bittv.ts:280-300  getLatestVersion: never throws, falls back to v216.   *)
(***************************************************************************)
getLatestVersion(answer) ==
    IF answer \in {"http_error", "network_error", "no_version_dir"}
    THEN FALLBACK_VERSION
    ELSE answer

(***************************************************************************)
(* bittv.ts:302-314  fetchAndDecrypt: null on a non-OK status or on any    *)
(* exception, else parsed.info || [].                                      *)
(***************************************************************************)
fetchAndDecryptNoCatch(answer) ==
    IF answer.kind = "network_error"
    THEN REJECTED
    ELSE IF answer.kind = "http_error"
    THEN NULL
    ELSE LET parsed == decryptPlaylist(answer.text).json
         IN  [channels |-> InfoOrEmpty(parsed)]

fetchAndDecrypt(answer) ==
    IF answer.kind \in {"network_error", "http_error"}
    THEN NULL
    ELSE LET parsed == decryptPlaylist(answer.text).json
         IN  [channels |-> InfoOrEmpty(parsed)]

\* what `await getLatestVersion()` can yield (bittv.ts:329)
VersionResults == {getLatestVersion(answer) : answer \in VersionAnswers}

\* what the fetchAndDecrypt branch of each category, ID.json and EV.json
\* (bittv.ts:332-333), can settle to
SettledPayloads ==
    [cat \in {"ID", "EV"} |-> {fetchAndDecrypt(answer) : answer \in PayloadAnswers(cat)}]

\* what one fetchAndDecrypt branch can settle to (bittv.ts:336-337)
PayloadResults(cat) == SettledPayloads[cat]

\* a payload request: the file asked for under the directory of a version
PayloadUrl(version, file) == [version |-> version, file |-> file]

\* bittv.ts:332-337  the two requests issued, with the fallback version
\* written into the base URL
PayloadRequestsFallback(version) ==
    {PayloadUrl(FALLBACK_VERSION, "ID.json"), PayloadUrl(FALLBACK_VERSION, "EV.json")}

\* bittv.ts:332-337  both URLs are built from `version` and both are fetched
PayloadRequests(version) ==
    {PayloadUrl(version, "ID.json"), PayloadUrl(version, "EV.json")}

\* bittv.ts:335-338  Promise.all: rejects when one branch rejects
PromiseAll(a, b) ==
    IF a = REJECTED \/ b = REJECTED THEN REJECTED ELSE <<a, b>>

\* `x || []` of bittv.ts:341-342
OrEmpty(x) == IF x = NULL THEN <<>> ELSE x.channels

(***************************************************************************)
(* bittv.ts:340-345  the PlaylistData object performFetch builds.  `run`   *)
(* is the identity (the reference) of the object: the run that built it.   *)
(***************************************************************************)
BuildSnapshotKeepOld(r, version, idChannels, evChannels, t) ==
    [ indonesia   |-> IF idChannels = NULL /\ cachedPlaylist # NULL
                      THEN cachedPlaylist.indonesia ELSE OrEmpty(idChannels),
      event       |-> IF evChannels = NULL /\ cachedPlaylist # NULL
                      THEN cachedPlaylist.event ELSE OrEmpty(evChannels),
      version     |-> version,
      lastUpdated |-> t,
      run         |-> r ]

\* a snapshot of the fallback version never replaces one of a version found
BuildSnapshotKeepNewer(r, version, idChannels, evChannels, t) ==
    IF /\ cachedPlaylist # NULL
       /\ cachedPlaylist.version # FALLBACK_VERSION
       /\ version = FALLBACK_VERSION
    THEN cachedPlaylist
    ELSE [ indonesia   |-> OrEmpty(idChannels),
           event       |-> OrEmpty(evChannels),
           version     |-> version,
           lastUpdated |-> t,
           run         |-> r ]

BuildSnapshot(r, version, idChannels, evChannels, t) ==
    [ indonesia   |-> OrEmpty(idChannels),
      event       |-> OrEmpty(evChannels),
      version     |-> version,
      lastUpdated |-> t,
      run         |-> r ]

\* the reference held by a variable of type PlaylistData | null: the identity of
\* the object (the run that built it), 0 for null
Ref(playlist) == IF playlist = NULL THEN 0 ELSE playlist.run

(***************************************************************************)
(* A performFetch invocation.  pc: "version" (awaiting getLatestVersion),  *)
(* "payloads" (awaiting Promise.all), "returned" (the async function has   *)
(* returned, its awaiter has not resumed), "done".  `caller` is the        *)
(* request awaiting it (0 for a background refresh, which nobody awaits);  *)
(* `result` is the reference the function returned.                        *)
(***************************************************************************)
NewRun(bg, caller, force) ==
    [ pc       |-> "version",
      bg       |-> bg,
      caller   |-> caller,
      force    |-> force,
      version  |-> "",
      requests |-> {},
      result   |-> 0 ]

\* the invocation once it has returned `result`, its locals gone
Returned(run, result) ==
    [NewRun(run.bg, run.caller, run.force) EXCEPT !.pc = "returned", !.result = result]

\* an invocation whose awaiter has resumed: nothing of it is left
DONE == [pc |-> "done"]

\* the locals of run r when it returned, and the reference it returned
RunRecord(r, version, idChannels, evChannels, result) ==
    [ run        |-> r,
      version    |-> version,
      idChannels |-> idChannels,
      evChannels |-> evChannels,
      result     |-> result ]

NoRun == RunRecord(0, "", NULL, NULL, 0)

InFlight == {r \in DOMAIN runs : runs[r].pc # "done"}

\* the model's room for one more performFetch run
CanStart == Len(runs) < MaxRuns /\ Cardinality(InFlight) < MaxInFlight

\* bittv.ts:318  if (isUpdating) return;
MayStartBackgroundAlways == TRUE

\* a guard that also waits for the fetches that requests are awaiting
MayStartBackgroundIdle == ~isUpdating /\ InFlight = {}

MayStartBackground == ~isUpdating

\* bittv.ts:360  now - lastFetchTime < CACHE_DURATION
IsFreshSeconds(t) == t - lastFetchTime < 60 * 5

IsFresh(t) == t - lastFetchTime < CACHE_DURATION

\* route.ts:14-21  500 when fetchPlaylist resolved to null, else 200
HttpStatus(playlist) == IF playlist = 0 THEN 500 ELSE 200

\* route.ts:12-21  the response to request `call`
Response(call, force, path, playlist) ==
    [ call   |-> call,
      force  |-> force,
      path   |-> path,
      value  |-> playlist,
      status |-> HttpStatus(playlist) ]

NoReply == [call |-> 0, force |-> FALSE, path |-> "none", value |-> 0, status |-> 0]

(***************************************************************************)
(* bittv.ts:356-372  fetchPlaylist(force), up to its first suspension, as  *)
(* called by GET /api/playlist (route.ts:6-21).                            *)
(***************************************************************************)
FetchPlaylist(force) ==
    /\ nCalls < MaxCalls
    /\ nCalls' = nCalls + 1
    /\ IF ~force /\ cachedPlaylist # NULL /\ IsFresh(now)
       THEN \* 360-362: fresh
            /\ lastReply' = Response(nCalls + 1, force, "fresh", Ref(cachedPlaylist))
            /\ UNCHANGED <<runs, isUpdating>>
       ELSE IF ~force /\ cachedPlaylist # NULL
       THEN \* 365-369: stale; triggerBackgroundUpdate() is not awaited
            /\ lastReply' = Response(nCalls + 1, force, "stale", Ref(cachedPlaylist))
            /\ IF MayStartBackground
               THEN /\ CanStart
                    /\ isUpdating' = TRUE
                    /\ runs' = Append(runs, NewRun(TRUE, 0, FALSE))
               ELSE UNCHANGED <<runs, isUpdating>>
       ELSE \* 371: return performFetch()
            /\ CanStart
            /\ runs' = Append(runs, NewRun(FALSE, nCalls + 1, force))
            /\ UNCHANGED <<isUpdating, lastReply>>
    /\ UNCHANGED <<now, cachedPlaylist, lastFetchTime, lastRun, req, dec>>

Call == \E force \in BOOLEAN : FetchPlaylist(force)

(***************************************************************************)
(* bittv.ts:329-338  getLatestVersion resolves; both payload fetches are   *)
(* issued with the version it produced.                                    *)
(***************************************************************************)
VersionResolved(r) ==
    /\ r \in DOMAIN runs
    /\ runs[r].pc = "version"
    /\ \E version \in VersionResults :
          runs' = [runs EXCEPT ![r].pc = "payloads", ![r].version = version,
                               ![r].requests = PayloadRequests(version)]
    /\ UNCHANGED <<now, cachedPlaylist, lastFetchTime, isUpdating, nCalls, lastReply,
                   lastRun, req, dec>>

\* a performFetch that empties the cache when neither category could be fetched
CommitDropsFailed(r) ==
    /\ r \in DOMAIN runs
    /\ runs[r].pc = "payloads"
    /\ \E idChannels \in PayloadResults("ID"), evChannels \in PayloadResults("EV") :
          LET data == BuildSnapshot(r, runs[r].version, idChannels, evChannels, now)
              failed == idChannels = NULL /\ evChannels = NULL
          IN  /\ cachedPlaylist' = IF failed THEN NULL ELSE data
              /\ lastFetchTime' = IF failed THEN 0 ELSE now
              /\ runs' = [runs EXCEPT ![r] = Returned(runs[r], IF failed THEN 0 ELSE r)]
              /\ lastRun' = RunRecord(r, runs[r].version, idChannels, evChannels,
                                      IF failed THEN 0 ELSE r)
    /\ UNCHANGED <<now, isUpdating, nCalls, lastReply, req, dec>>

(***************************************************************************)
(* bittv.ts:335-353  Promise.all settles and performFetch resumes.  The    *)
(* two fetchAndDecrypt branches touch no shared state, so their settling   *)
(* is part of this step.  On success: build the snapshot, replace the      *)
(* cache slot and the timestamp (no await separates the two assignments,   *)
(* both Date.now() reads fall in the same instant), return the snapshot.   *)
(* On a rejection: the catch block returns null.                           *)
(***************************************************************************)
Commit(r) ==
    /\ r \in DOMAIN runs
    /\ runs[r].pc = "payloads"
    /\ \E idChannels \in PayloadResults("ID"), evChannels \in PayloadResults("EV") :
          LET settled    == PromiseAll(idChannels, evChannels)
              data       == BuildSnapshot(r, runs[r].version, idChannels, evChannels, now)
          IN  IF settled = REJECTED
              THEN \* 350-353
                   /\ runs' = [runs EXCEPT ![r] = Returned(runs[r], 0)]
                   /\ lastRun' = RunRecord(r, runs[r].version, idChannels, evChannels, 0)
                   /\ UNCHANGED <<cachedPlaylist, lastFetchTime, now>>
              ELSE \* 340-349
                   /\ cachedPlaylist' = data
                   /\ lastFetchTime' = now
                   /\ UNCHANGED now
                   /\ runs' = [runs EXCEPT ![r] = Returned(runs[r], Ref(data))]
                   /\ lastRun' = RunRecord(r, runs[r].version, idChannels, evChannels,
                                           Ref(data))
    /\ UNCHANGED <<isUpdating, nCalls, lastReply, req, dec>>

\* a background refresh that ends without the finally block
FinallyKeepsFlag(r) ==
    /\ r \in DOMAIN runs
    /\ runs[r].pc = "returned"
    /\ runs[r].bg
    /\ runs' = [runs EXCEPT ![r] = DONE]
    /\ UNCHANGED <<now, cachedPlaylist, lastFetchTime, isUpdating, nCalls, lastReply,
                   lastRun, req, dec>>

(***************************************************************************)
(* bittv.ts:322-324  the finally block of triggerBackgroundUpdate.         *)
(***************************************************************************)
Finally(r) ==
    /\ r \in DOMAIN runs
    /\ runs[r].pc = "returned"
    /\ runs[r].bg
    /\ isUpdating' = FALSE
    /\ runs' = [runs EXCEPT ![r] = DONE]
    /\ UNCHANGED <<now, cachedPlaylist, lastFetchTime, nCalls, lastReply, lastRun, req, dec>>

\* bittv.ts:371  what the awaiting caller receives: the promise's own value
ReplyValueFromCache(r) == Ref(cachedPlaylist)

ReplyValue(r) == runs[r].result

(***************************************************************************)
(* bittv.ts:371, route.ts:12-21  the awaiting request resumes and replies. *)
(***************************************************************************)
Reply(r) ==
    /\ r \in DOMAIN runs
    /\ runs[r].pc = "returned"
    /\ ~runs[r].bg
    /\ lastReply' = Response(runs[r].caller, runs[r].force, "fetch", ReplyValue(r))
    /\ runs' = [runs EXCEPT ![r] = DONE]
    /\ UNCHANGED <<now, cachedPlaylist, lastFetchTime, isUpdating, nCalls, lastRun, req, dec>>

(***************************************************************************)
(* The clock advances to the last instant at which the cached snapshot is  *)
(* fresh, or to the first at which it is stale.                            *)
(***************************************************************************)
Tick ==
    /\ cachedPlaylist # NULL
    /\ \E t \in {lastFetchTime + CACHE_DURATION - 1, lastFetchTime + CACHE_DURATION} :
          /\ t > now
          /\ t <= MaxNow
          /\ now' = t
    /\ UNCHANGED <<cachedPlaylist, lastFetchTime, isUpdating, runs, nCalls, lastReply,
                   lastRun, req, dec>>

(***************************************************************************)
(* The stream proxies: /api/playlist/proxy (proxy/route.ts),               *)
(* /api/playlist/stream (stream/route.ts) and the catch-all                *)
(* /api/playlist/proxy/... (proxy/[[...path]]/route.ts).  One inbound      *)
(* request is followed from its arrival to its response; req holds the     *)
(* handler's position, the inbound request, the outbound fetch, the state  *)
(* of the client connection and the response.                              *)
(***************************************************************************)
Routes == {"proxy", "stream", "catchall"}

\* the methods each route file exports a handler for
Methods(route) ==
    CASE route = "proxy"  -> {"GET", "HEAD", "OPTIONS"}
      [] route = "stream" -> {"GET", "POST", "HEAD", "OPTIONS"}
      [] OTHER            -> {"GET", "OPTIONS"}

\* values of the url query parameter: absent, not an absolute URL, and one
\* target of each kind the handlers tell apart
NO_URL == ""
BAD_URL == "not a url"
Urls ==
    { NO_URL, BAD_URL,
      "https://cdn.example/live/index.m3u8",
      "https://cdn.example/live/manifest.mpd",
      "https://cdn.example/live/seg.ts" }

\* targetUrl.includes(ext)
UrlIncludes(url, ext) ==
    \/ ext = ".m3u8" /\ url \in { "https://cdn.example/live/index.m3u8",
                                  "https://video.transtv.co.id/live/index.m3u8" }
    \/ ext = ".mpd"  /\ url = "https://cdn.example/live/manifest.mpd"
    \/ ext = ".flv"  /\ url = "https://cdn.example/live/stream.flv"
    \/ ext = "transtv" /\ url = "https://video.transtv.co.id/live/index.m3u8"

\* new URL(targetUrl) does not throw
ValidUrl(url) == url \notin {NO_URL, BAD_URL}

\* content types an upstream answers with
ContentTypes ==
    { "application/vnd.apple.mpegurl", "audio/mpegurl",
      "application/dash+xml", "video/mp2t" }

\* contentType.includes(part)
TypeIncludes(contentType, part) ==
    CASE part = "mpegurl" ->
            contentType \in {"application/vnd.apple.mpegurl", "audio/mpegurl"}
      [] part = "dash+xml" -> contentType = "application/dash+xml"
      [] OTHER -> contentType = part

\* upstream status codes; response.ok is the 2xx range
Statuses == {200, 206, 404}
Ok(status) == status >= 200 /\ status <= 299

(***************************************************************************)
(* A body is a sequence of items: the lines of an HLS playlist or the      *)
(* elements of a DASH manifest.  tag is what the rewriters match on, val   *)
(* the form of the URL the item carries: "abs" starts with http, "rel"     *)
(* resolves against the base URL, "bad" makes new URL(...) throw.          *)
(***************************************************************************)
Item(tag, val) == [tag |-> tag, val |-> val]

HlsItems ==
    { Item("#EXTINF", "none"), Item("#EXT-X-KEY", "rel"),
      Item("line", "abs"), Item("line", "rel"), Item("line", "bad") }

MpdItems ==
    { Item("MPD", "none"), Item("dash:MPD", "none"),
      Item("BaseURL", "abs"), Item("BaseURL", "rel"), Item("BaseURL", "bad"),
      Item("ContentProtection", "kid"), Item("AdaptationSet", "none") }

SeqsUpTo(S, n) == UNION {[1 .. k -> S] : k \in 0 .. n}

Bodies == SeqsUpTo(HlsItems, MaxLines) \cup SeqsUpTo(MpdItems, MaxLines)

\* new URL(trimmed, baseUrl) returns
Resolves(val) == val # "bad"

\* trimmed.startsWith('#')
IsTagLine(item) == item.tag \in {"#EXTINF", "#EXT-X-KEY", "#EXT-X-MAP", "#EXT-X-MEDIA"}

\* a line of the text as the HLS rewriters see it: markup is a relative reference
AsLine(item) == IF item.tag = "line" THEN item ELSE Item("line", "rel")

\* proxy/route.ts:78-83
ProxyHlsLine(item) ==
    IF IsTagLine(item) THEN item
    ELSE LET trimmed == AsLine(item)
         IN IF trimmed.val = "abs" THEN trimmed
            ELSE IF Resolves(trimmed.val) THEN Item("line", "resolved")
            ELSE trimmed

\* stream/route.ts:148-164
StreamHlsLine(item) ==
    IF IsTagLine(item)
    THEN IF item.tag \in {"#EXT-X-KEY", "#EXT-X-MAP"}
         THEN IF item.val = "abs" THEN item
              ELSE IF Resolves(item.val) THEN Item(item.tag, "resolved")
              ELSE item
         ELSE item
    ELSE LET trimmed == AsLine(item)
         IN IF trimmed.val = "abs" THEN trimmed
            ELSE IF Resolves(trimmed.val) THEN Item("line", "resolved")
            ELSE trimmed

\* proxy/[[...path]]/route.ts:77-93
CatchAllHlsLine(item) ==
    IF IsTagLine(item) THEN item
    ELSE LET trimmed == AsLine(item)
         IN IF Resolves(trimmed.val) THEN Item("line", "proxied") ELSE trimmed

\* text.includes('<BaseURL>')
HasBaseURL(text) == \E i \in DOMAIN text : text[i].tag = "BaseURL"

\* text.match(/<MPD[^>]*>/i): the positions of an opening <MPD ...> tag
MpdMatch(text) == {i \in DOMAIN text : text[i].tag = "MPD"}

\* text.slice(0, idx) + inserted + text.slice(idx)
InsertAfter(text, i, item) ==
    SubSeq(text, 1, i) \o <<item>> \o SubSeq(text, i + 1, Len(text))

\* the <BaseURL> injection shared by the three handlers
InjectBaseURL(text, val) ==
    IF MpdMatch(text) # {}
    THEN InsertAfter(text, First(MpdMatch(text)), Item("BaseURL", val))
    ELSE text

\* proxy/route.ts:93: string concatenation, nothing can throw
ProxyBaseURL(item) ==
    IF item.tag = "BaseURL" /\ item.val # "abs" THEN Item("BaseURL", "joined") ELSE item

\* stream/route.ts:176-182
StreamBaseURL(item) ==
    IF item.tag = "BaseURL" /\ item.val # "abs" /\ Resolves(item.val)
    THEN Item("BaseURL", "resolved")
    ELSE item

\* proxy/[[...path]]/route.ts:120-132: new URL(content, baseUrl) is not guarded
CatchAllBaseURL(item) ==
    IF item.tag = "BaseURL" THEN Item("BaseURL", "proxied") ELSE item

CatchAllBaseURLThrows(text) ==
    \E i \in DOMAIN text : text[i].tag = "BaseURL" /\ text[i].val = "bad"

\* text.replace(cpRegex, ''): at a <ContentProtection the first alternative,
\* <ContentProtection[\s\S]*?<\/ContentProtection>, is tried first and runs to
\* the first closing tag anywhere after it; only when there is none does the
\* second alternative remove a self-closing element alone.  val "block" is an
\* element with children and a closing tag.
RECURSIVE StripContentProtection(_)
StripContentProtection(text) ==
    IF text = <<>> THEN <<>>
    ELSE IF Head(text).tag = "ContentProtection"
    THEN LET closing == {j \in DOMAIN text :
                            text[j].tag = "ContentProtection" /\ text[j].val = "block"}
         IN IF closing # {}
            THEN StripContentProtection(SubSeq(text, First(closing) + 1, Len(text)))
            ELSE StripContentProtection(Tail(text))
    ELSE <<Head(text)>> \o StripContentProtection(Tail(text))

RECURSIVE InjectClearKey(_, _)
InjectClearKey(text, clearKeyProtection) ==
    IF text = <<>> THEN <<>>
    ELSE IF Head(text).tag = "AdaptationSet"
    THEN <<Head(text), clearKeyProtection>> \o InjectClearKey(Tail(text), clearKeyProtection)
    ELSE <<Head(text)>> \o InjectClearKey(Tail(text), clearKeyProtection)

\* proxy/route.ts:96-114
ClearKey(text) ==
    LET kidMatch == \E i \in DOMAIN text : text[i].val = "kid"
        clearKeyProtection == Item("ClearKey", IF kidMatch THEN "kid" ELSE "nokid")
    IN InjectClearKey(StripContentProtection(text), clearKeyProtection)

Rewritten(text) == [ok |-> TRUE, text |-> text]
Thrown == [ok |-> FALSE, text |-> <<>>]

\* proxy/route.ts:77-115
ProxyRewrite(isM3u8, drm, text) ==
    IF isM3u8 THEN Rewritten([i \in DOMAIN text |-> ProxyHlsLine(text[i])])
    ELSE LET based == IF ~HasBaseURL(text) THEN InjectBaseURL(text, "base")
                      ELSE [i \in DOMAIN text |-> ProxyBaseURL(text[i])]
         IN Rewritten(IF drm = "clearkey" THEN ClearKey(based) ELSE based)

\* stream/route.ts:147-184
StreamRewrite(isM3u8, drm, text) ==
    IF isM3u8 THEN Rewritten([i \in DOMAIN text |-> StreamHlsLine(text[i])])
    ELSE Rewritten(IF ~HasBaseURL(text) THEN InjectBaseURL(text, "base")
                   ELSE [i \in DOMAIN text |-> StreamBaseURL(text[i])])

\* proxy/[[...path]]/route.ts:76-154
CatchAllRewrite(isM3u8, drm, text) ==
    IF isM3u8 THEN Rewritten([i \in DOMAIN text |-> CatchAllHlsLine(text[i])])
    ELSE IF HasBaseURL(text) /\ CatchAllBaseURLThrows(text) THEN Thrown
    ELSE LET based == IF ~HasBaseURL(text) THEN InjectBaseURL(text, "proxied")
                      ELSE [i \in DOMAIN text |-> CatchAllBaseURL(text[i])]
         IN Rewritten(IF drm = "clearkey" THEN ClearKey(based) ELSE based)

\* unnamed/part_002:116-131: only the Widevine and PlayReady elements (the
\* ones with children here) are removed, and the element injected carries
\* the scheme urn:uuid:1077efe1-c512-469a-ab1c-def2a6981145
NotWidevine(item) == ~(item.tag = "ContentProtection" /\ item.val = "block")

UnnamedClearKey(text) ==
    InjectClearKey(SelectSeq(text, NotWidevine), Item("ClearKey 1077efe1", "nokid"))

\* unnamed/part_002:70-135
UnnamedRewrite(isM3u8, drm, text) ==
    IF isM3u8 THEN Rewritten([i \in DOMAIN text |-> ProxyHlsLine(text[i])])
    ELSE LET based == IF ~HasBaseURL(text) THEN InjectBaseURL(text, "base")
                      ELSE [i \in DOMAIN text |-> ProxyBaseURL(text[i])]
         IN Rewritten(IF drm = "clearkey" THEN UnnamedClearKey(based) ELSE based)

Rewrite(route, isM3u8, drm, text) ==
    CASE route = "proxy"   -> ProxyRewrite(isM3u8, drm, text)
      [] route = "stream"  -> StreamRewrite(isM3u8, drm, text)
      [] route = "unnamed" -> UnnamedRewrite(isM3u8, drm, text)
      [] OTHER             -> CatchAllRewrite(isM3u8, drm, text)

\* isM3u8 as each handler computes it
IsM3u8(route, url, contentType) ==
    \/ UrlIncludes(url, ".m3u8")
    \/ IF route = "stream"
       THEN TypeIncludes(contentType, "mpegurl")
       ELSE \/ TypeIncludes(contentType, "application/vnd.apple.mpegurl")
            \/ TypeIncludes(contentType, "application/x-mpegurl")

\* isMpd as each handler computes it
IsMpd(route, url, contentType) ==
    \/ UrlIncludes(url, ".mpd")
    \/ IF route = "stream"
       THEN TypeIncludes(contentType, "dash+xml")
       ELSE TypeIncludes(contentType, "application/dash+xml")

(***************************************************************************)
(* Responses.  kind is "text", "json", "null" or "stream" (the upstream    *)
(* body handed on as it arrives); keys are the fields of a JSON body;      *)
(* headers the names of the headers the response carries; log the console  *)
(* level the handler reported the outcome at.                              *)
(***************************************************************************)
NextResponse(status, kind, body, keys, headers, log) ==
    [status |-> status, kind |-> kind, body |-> body, keys |-> keys,
     headers |-> headers, log |-> log]

NoResponse == NextResponse(0, "none", <<>>, {}, {}, "none")

\* the headers of an upstream answer
UpstreamHeaders == {"content-type", "content-length", "content-encoding"}

\* proxy/route.ts:51-57 and proxy/[[...path]]/route.ts:51-57
ProxyHeaders ==
    (UpstreamHeaders \ {"content-encoding"}) \cup
    { "Access-Control-Allow-Origin", "Access-Control-Allow-Methods",
      "Access-Control-Allow-Headers", "Access-Control-Expose-Headers" }

\* stream/route.ts:118-125
StreamHeaders ==
    (UpstreamHeaders \ {"content-encoding", "content-length"}) \cup
    { "Access-Control-Allow-Origin", "Access-Control-Allow-Methods",
      "Access-Control-Allow-Headers", "Access-Control-Expose-Headers",
      "Cross-Origin-Resource-Policy" }

\* the OPTIONS handlers of the three route files
Options(route) ==
    CASE route = "proxy" ->
            NextResponse(200, "null", <<>>, {},
                { "Access-Control-Allow-Origin", "Access-Control-Allow-Methods",
                  "Access-Control-Allow-Headers", "Access-Control-Expose-Headers" }, "none")
      [] route = "stream" ->
            NextResponse(204, "null", <<>>, {},
                { "Access-Control-Allow-Origin", "Access-Control-Allow-Methods",
                  "Access-Control-Allow-Headers", "Access-Control-Max-Age" }, "none")
      [] OTHER ->
            NextResponse(200, "null", <<>>, {},
                { "Access-Control-Allow-Origin", "Access-Control-Allow-Methods",
                  "Access-Control-Allow-Headers" }, "none")

(***************************************************************************)
(* Errors a fetch or a body read rejects with.  message is the set of the  *)
(* words of e.message, so that message.includes(word) is membership.       *)
(***************************************************************************)
Error(name, message) == [name |-> name, message |-> message]

\* DNS, TLS and connection failures, as the runtimes word them
NetworkErrors ==
    { Error("TypeError", {"fetch", "failed"}),
      Error("TypeError", {"getaddrinfo", "ENOTFOUND"}),
      Error("Error", {"connect", "ECONNREFUSED"}) }

AbortError == Error("AbortError", {"This", "operation", "was", "aborted"})
ParseError == Error("TypeError", {"Invalid", "URL"})
BodyError == Error("TypeError", {"terminated"})

\* proxy/route.ts:132
IsNetworkError(errorMessage) ==
    "fetch" \in errorMessage \/ "network" \in errorMessage \/ "connect" \in errorMessage

\* proxy/route.ts:129-147
ProxyCatch(e) ==
    IF IsNetworkError(e.message)
    THEN NextResponse(502, "json", <<>>, {"error", "message", "details", "suggestion"},
                      {"Content-Type"}, "error")
    ELSE NextResponse(500, "json", <<>>, {"error", "message"}, {"Content-Type"}, "error")

\* stream/route.ts:197-214
StreamCatch(e) ==
    IF e.name = "AbortError"
    THEN NextResponse(499, "null", <<>>, {}, {}, "log")
    ELSE NextResponse(500, "json", <<>>, {"error", "stack", "url"},
                      {"Content-Type", "Access-Control-Allow-Origin"}, "error")

\* proxy/[[...path]]/route.ts:168-171
CatchAllCatch(e) == NextResponse(500, "text", <<>>, {}, {}, "error")

MainCatch(route, e) ==
    CASE route = "proxy"  -> ProxyCatch(e)
      [] route = "stream" -> StreamCatch(e)
      [] OTHER            -> CatchAllCatch(e)

\* proxy/route.ts:118-121 and proxy/[[...path]]/route.ts:157-160
ProcessingFailed == NextResponse(500, "text", <<>>, {}, {}, "error")

(***************************************************************************)
(* The request context.                                                    *)
(***************************************************************************)
Request(route, method, url, drm, range) ==
    [route |-> route, method |-> method, url |-> url, drm |-> drm, range |-> range]

NoRequest == Request("none", "none", NO_URL, "none", FALSE)

Fetch(state, signal, method, range) ==
    [state |-> state, signal |-> signal, method |-> method, range |-> range,
     status |-> 0, contentType |-> "", body |-> <<>>]

NoFetch == Fetch("none", FALSE, "none", "none")

Context(pc, request, fetch, client, response) ==
    [pc |-> pc, request |-> request, fetch |-> fetch, client |-> client,
     response |-> response]

IdleReq == Context("idle", NoRequest, NoFetch, "connected", NoResponse)

Responded(request, response) ==
    Context("responded", request, NoFetch, "connected", response)

\* the outbound fetch each handler issues: only stream/route.ts hands the
\* inbound request's abort signal on, and only it forces a Range header
Outbound(request) ==
    LET isManifest == UrlIncludes(request.url, ".m3u8") \/ UrlIncludes(request.url, ".mpd")
        isFlv == UrlIncludes(request.url, ".flv")
    IN Fetch("inflight",
             request.route = "stream",
             IF request.route = "catchall" THEN "GET" ELSE request.method,
             IF request.range THEN "client"
             ELSE IF request.route = "stream" /\ ~isManifest /\ ~isFlv THEN "bytes=0-"
             ELSE "none")

\* a handler that answers before it has asked the upstream
ArriveWithoutFetch(request) ==
    Responded(request, NextResponse(200, "stream", <<>>, {}, {}, "none"))

\* the handler, from the arrival of the request to its first await
Arrive(request) ==
    IF request.method = "OPTIONS" THEN Responded(request, Options(request.route))
    ELSE IF request.url = NO_URL
    THEN Responded(request, NextResponse(400, "text", <<>>, {}, {}, "none"))
    ELSE IF ~ValidUrl(request.url)
    THEN IF request.route = "stream"
         THEN Responded(request, NextResponse(400, "text", <<>>, {}, {}, "error"))
         ELSE Responded(request, MainCatch(request.route, ParseError))
    ELSE Context("fetching", request, Outbound(request), "connected", NoResponse)

\* the bodies a request of this method is answered with
BodiesFor(method) == IF method = "HEAD" THEN {<<>>} ELSE Bodies

\* whether the handler reads the whole body as text before it responds
ReadsText(request, status, contentType) ==
    LET manifest == \/ IsM3u8(request.route, request.url, contentType)
                    \/ IsMpd(request.route, request.url, contentType)
    IN CASE request.route = "proxy"  -> manifest /\ request.method = "GET"
         [] request.route = "stream" -> ~Ok(status) \/ (request.method = "GET" /\ manifest)
         [] OTHER                    -> manifest

\* the response once the text has been read
TextResponse(request, status, contentType, text) ==
    LET isM3u8 == IsM3u8(request.route, request.url, contentType)
        rewritten == Rewrite(request.route, isM3u8, request.drm, text)
    IN CASE request.route = "stream" ->
              IF ~Ok(status)
              THEN NextResponse(status, "text", text, {}, StreamHeaders, "error")
              ELSE NextResponse(200, "text", rewritten.text, {}, StreamHeaders, "none")
         [] request.route = "proxy" ->
              NextResponse(status, "text", rewritten.text, {},
                           ProxyHeaders \ {"content-length"}, "none")
         [] OTHER ->
              IF rewritten.ok
              THEN NextResponse(status, "text", rewritten.text, {},
                                ProxyHeaders \ {"content-length"}, "none")
              ELSE ProcessingFailed

\* the response that hands the upstream body on untouched
Passthrough(request, status, body) ==
    NextResponse(status, "stream", body, {},
                 IF request.route = "stream" THEN StreamHeaders ELSE ProxyHeaders, "none")

cacheVars == <<now, cachedPlaylist, lastFetchTime, isUpdating, runs, nCalls, lastReply, lastRun>>

\* a request arrives at one of the three routes
ReceiveRequest ==
    /\ req.pc = "idle"
    /\ \E route \in Routes, url \in Urls, range \in BOOLEAN :
         \E method \in Methods(route),
            drm \in IF route = "stream" THEN {"none"} ELSE {"none", "clearkey"} :
              req' = Arrive(Request(route, method, url, drm, range))
    /\ UNCHANGED <<cacheVars, dec>>

\* the upstream answers with a status line and headers
UpstreamAnswers ==
    /\ req.pc = "fetching"
    /\ \E status \in Statuses, contentType \in ContentTypes :
         LET answered == [req.fetch EXCEPT !.state = "answered", !.status = status,
                                           !.contentType = contentType]
         IN IF ReadsText(req.request, status, contentType)
            THEN req' = [req EXCEPT !.pc = "reading", !.fetch = answered]
            ELSE \E body \in BodiesFor(req.request.method) :
                    req' = [req EXCEPT !.pc = "responded",
                                       !.fetch = [answered EXCEPT !.body = body],
                                       !.response = Passthrough(req.request, status, body)]
    /\ UNCHANGED <<cacheVars, dec>>

\* the upstream cannot be reached: fetch rejects
UpstreamFails ==
    /\ req.pc = "fetching"
    /\ \E e \in NetworkErrors :
         req' = [req EXCEPT !.pc = "responded", !.fetch.state = "failed",
                            !.response = MainCatch(req.request.route, e)]
    /\ UNCHANGED <<cacheVars, dec>>

\* await response.text() resolves
BodyRead ==
    /\ req.pc = "reading"
    /\ \E text \in BodiesFor(req.request.method) :
         req' = [req EXCEPT !.pc = "responded", !.fetch.body = text,
                            !.response = TextResponse(req.request, req.fetch.status,
                                                      req.fetch.contentType, text)]
    /\ UNCHANGED <<cacheVars, dec>>

\* await response.text() rejects: the upstream connection broke mid-body
BodyFails ==
    /\ req.pc = "reading"
    /\ req' = [req EXCEPT !.pc = "responded", !.fetch.state = "body_failed",
                          !.response = IF req.request.route = "stream"
                                       THEN MainCatch("stream", BodyError)
                                       ELSE ProcessingFailed]
    /\ UNCHANGED <<cacheVars, dec>>

\* the client goes away while the handler awaits the upstream; a fetch that
\* was given the request's signal rejects with AbortError, one that was not
\* goes on
ClientDisconnect ==
    /\ req.pc \in {"fetching", "reading"}
    /\ req.client = "connected"
    /\ req' = IF req.fetch.signal
              THEN [req EXCEPT !.client = "gone", !.pc = "responded",
                               !.fetch.state = "cancelled",
                               !.response = MainCatch(req.request.route, AbortError)]
              ELSE [req EXCEPT !.client = "gone"]
    /\ UNCHANGED <<cacheVars, dec>>

\* a handler that drops the playlist cache's timestamp when it is through
DoneInvalidates ==
    /\ req.pc = "responded"
    /\ req' = IdleReq
    /\ lastFetchTime' = 0
    /\ UNCHANGED <<now, cachedPlaylist, isUpdating, runs, nCalls, lastReply, lastRun, dec>>

\* the response is out; the route waits for the next request
Done ==
    /\ req.pc = "responded"
    /\ req' = IdleReq
    /\ UNCHANGED <<cacheVars, dec>>


RunIds == 1 .. MaxRuns

ResolveVersion == \E r \in RunIds : VersionResolved(r)
CommitRun == \E r \in RunIds : Commit(r)
FinishBackground == \E r \in RunIds : Finally(r)
ReplyCall == \E r \in RunIds : Reply(r)

Init ==
    /\ now = 1
    /\ cachedPlaylist = NULL
    /\ lastFetchTime = 0
    /\ isUpdating = FALSE
    /\ runs = <<>>
    /\ nCalls = 0
    /\ lastReply = NoReply
    /\ lastRun = NoRun
    /\ req = IdleReq
    /\ dec = IdleDec

Next ==
    \/ Call
    \/ ResolveVersion
    \/ CommitRun
    \/ FinishBackground
    \/ ReplyCall
    \/ Tick

Spec == Init /\ [][Next]_vars

\* Every await of a run resumes: the fetches of bittv.ts:282,304 settle (the
\* runtime's fetch gives up on an upstream that stays silent) and the event
\* loop runs each continuation that is ready.
Settles ==
    \A r \in RunIds : /\ WF_vars(VersionResolved(r))
                      /\ WF_vars(Commit(r))
                      /\ WF_vars(Finally(r))
                      /\ WF_vars(Reply(r))

FairSpec == Spec /\ Settles

NextProxy ==
    \/ ReceiveRequest
    \/ UpstreamAnswers
    \/ UpstreamFails
    \/ BodyRead
    \/ BodyFails
    \/ ClientDisconnect
    \/ Done

SpecProxy == Init /\ [][NextProxy]_vars

(***************************************************************************)
(* The payload decoding on its own: decryptPlaylist and fetchAndDecrypt of *)
(* bittv.ts and scan of decrypt.js, applied to one payload text.           *)
(***************************************************************************)
\* the texts handed to the scanner:
\*  - k prefix characters, k one of 0, 1, 98, 500, 999, followed by an encoded
\*    payload of 8 characters (the encoded {}) or of 264; the decoded text is
\*    an object, an object with text after its last brace, an object with a
\*    further brace in that text, or broken JSON;
\*  - unobfuscated JSON of the shapes { info: [...] }, { data: [...] }, [...];
\*  - texts no offset of which decodes.
ScanBlobs ==
    {Blob(k + n, k, Text(kind, json), padded, NotJson) :
        k \in {0, 1, 98, 500, 999}, n \in {8, 264},
        kind \in {"object", "object+tail", "object+brace", "broken"},
        json \in {Json("info", <<"ch">>), Json("data", <<"ch">>)}, padded \in BOOLEAN}
    \cup {Blob(n, -1, Noise, FALSE, Json(shape, <<"ch">>)) :
            n \in {60, 300}, shape \in {"info", "data", "array"}}
    \cup {Blob(n, -1, Noise, FALSE, NotJson) : n \in {0, 60, 300, 2000}}

Job(pc, blob, result, channels) ==
    [pc |-> pc, blob |-> blob, result |-> result, channels |-> channels]

\* bittv.ts:302-314 on a body the fetch delivered with an OK status
FetchAndDecryptBody ==
    /\ dec.pc = "blob"
    /\ dec' = Job("fetched", dec.blob, decryptPlaylist(dec.blob),
                  fetchAndDecrypt([kind |-> "encoded", text |-> dec.blob]))
    /\ UNCHANGED <<cacheVars, req>>

\* decrypt.js:47-53 on the same text
ScanStdin ==
    /\ dec.pc = "blob"
    /\ dec' = Job("scanned", dec.blob, scan(dec.blob), NULL)
    /\ UNCHANGED <<cacheVars, req>>

InitScan ==
    /\ now = 1
    /\ cachedPlaylist = NULL
    /\ lastFetchTime = 0
    /\ isUpdating = FALSE
    /\ runs = <<>>
    /\ nCalls = 0
    /\ lastReply = NoReply
    /\ lastRun = NoRun
    /\ req = IdleReq
    /\ \E blob \in ScanBlobs : dec = Job("blob", blob, Scanned(-1, NotJson, 0), NULL)

NextScan ==
    \/ FetchAndDecryptBody
    \/ ScanStdin

SpecScan == InitScan /\ [][NextScan]_vars

(***************************************************************************)
(* The codec k0 of bittv.ts:217-238 on concrete strings. A string is the   *)
(* sequence of its UTF-16 code units, a Buffer the sequence of its bytes.  *)
(***************************************************************************)
\* s.split('').reverse().join(''): the code units in reverse order
reverse(s) == [i \in 1 .. Len(s) |-> s[Len(s) + 1 - i]]

\* the value of a base64 character, 64 for a character outside the alphabets
unbase64(c) ==
    IF c >= 65 /\ c <= 90 THEN c - 65
    ELSE IF c >= 97 /\ c <= 122 THEN c - 71
    ELSE IF c >= 48 /\ c <= 57 THEN c + 4
    ELSE IF c = 43 \/ c = 45 THEN 62
    ELSE IF c = 47 \/ c = 95 THEN 63
    ELSE 64

\* the values Buffer.from(s, 'base64') reads: it stops at the first '=' (61)
\* and skips every character outside the alphabets
RECURSIVE Sextets(_)
Sextets(s) ==
    IF s = <<>> \/ Head(s) = 61 THEN <<>>
    ELSE IF unbase64(Head(s)) < 64 THEN <<unbase64(Head(s))>> \o Sextets(Tail(s))
    ELSE Sextets(Tail(s))

\* the bytes of a run of sextets; the bits left over are dropped
Bytes(v) ==
    LET groups == Len(v) \div 4
        rest == Len(v) % 4
        n == 3 * groups + (IF rest > 1 THEN rest - 1 ELSE 0)
    IN [j \in 1 .. n |->
           LET q == 4 * ((j - 1) \div 3) + 1
               o == (j - 1) % 3
           IN IF o = 0 THEN (v[q] * 4 + v[q + 1] \div 16) % 256
              ELSE IF o = 1 THEN (v[q + 1] * 16 + v[q + 2] \div 4) % 256
              ELSE (v[q + 2] * 64 + v[q + 3]) % 256]

\* Buffer.from(s, 'base64'): never throws
FromBase64(s) == Bytes(Sextets(s))

IsCont(buf, i, lo, hi) == i <= Len(buf) /\ buf[i] >= lo /\ buf[i] <= hi

\* the code units of the code point cp
CodeUnits(cp) ==
    IF cp < 65536 THEN <<cp>>
    ELSE <<55296 + (cp - 65536) \div 1024, 56320 + ((cp - 65536) % 1024)>>

\* buf.toString('utf8') from byte i on: an ill-formed sequence becomes one
\* U+FFFD (65533) per maximal subpart
RECURSIVE ToUtf8From(_, _)
ToUtf8From(buf, i) ==
    IF i > Len(buf) THEN <<>>
    ELSE LET b == buf[i]
             lo2 == IF b = 224 THEN 160 ELSE IF b = 240 THEN 144 ELSE 128
             hi2 == IF b = 237 THEN 159 ELSE IF b = 244 THEN 143 ELSE 191
         IN IF b < 128 THEN <<b>> \o ToUtf8From(buf, i + 1)
            ELSE IF b >= 194 /\ b <= 223 THEN
                IF IsCont(buf, i + 1, 128, 191)
                THEN <<(b - 192) * 64 + (buf[i + 1] - 128)>> \o ToUtf8From(buf, i + 2)
                ELSE <<65533>> \o ToUtf8From(buf, i + 1)
            ELSE IF b >= 224 /\ b <= 239 THEN
                IF ~IsCont(buf, i + 1, lo2, hi2)
                THEN <<65533>> \o ToUtf8From(buf, i + 1)
                ELSE IF ~IsCont(buf, i + 2, 128, 191)
                THEN <<65533>> \o ToUtf8From(buf, i + 2)
                ELSE <<(b - 224) * 4096 + (buf[i + 1] - 128) * 64 + (buf[i + 2] - 128)>>
                         \o ToUtf8From(buf, i + 3)
            ELSE IF b >= 240 /\ b <= 244 THEN
                IF ~IsCont(buf, i + 1, lo2, hi2)
                THEN <<65533>> \o ToUtf8From(buf, i + 1)
                ELSE IF ~IsCont(buf, i + 2, 128, 191)
                THEN <<65533>> \o ToUtf8From(buf, i + 2)
                ELSE IF ~IsCont(buf, i + 3, 128, 191)
                THEN <<65533>> \o ToUtf8From(buf, i + 3)
                ELSE CodeUnits((b - 240) * 262144 + (buf[i + 1] - 128) * 4096
                                   + (buf[i + 2] - 128) * 64 + (buf[i + 3] - 128))
                         \o ToUtf8From(buf, i + 4)
            ELSE <<65533>> \o ToUtf8From(buf, i + 1)

\* k0: none of the calls in the try block throws on a string, so the catch
\* branch with its "" is never taken.  toString('latin1') gives one code unit
\* per byte, the byte's value.
k0(input) ==
    LET r1 == reverse(input)
        d1 == FromBase64(r1)
        r2 == reverse(d1)
        d2 == ToUtf8From(FromBase64(r2), 1)
    IN reverse(d2)

(***************************************************************************)
(* The inverse of the codec: the encoding that produced the payloads.      *)
(***************************************************************************)
\* the UTF-8 bytes of a string; a lone surrogate is encoded as U+FFFD
RECURSIVE Utf8Bytes(_)
Utf8Bytes(s) ==
    IF s = <<>> THEN <<>>
    ELSE LET u == Head(s)
         IN IF u < 128 THEN <<u>> \o Utf8Bytes(Tail(s))
            ELSE IF u < 2048 THEN <<192 + u \div 64, 128 + (u % 64)>> \o Utf8Bytes(Tail(s))
            ELSE IF u >= 55296 /\ u <= 56319 /\ Len(s) > 1 /\ s[2] >= 56320 /\ s[2] <= 57343 THEN
                LET cp == 65536 + (u - 55296) * 1024 + (s[2] - 56320)
                IN <<240 + cp \div 262144, 128 + ((cp \div 4096) % 64),
                     128 + ((cp \div 64) % 64), 128 + (cp % 64)>> \o Utf8Bytes(Tail(Tail(s)))
            ELSE IF u >= 55296 /\ u <= 57343 THEN <<239, 191, 189>> \o Utf8Bytes(Tail(s))
            ELSE <<224 + u \div 4096, 128 + ((u \div 64) % 64), 128 + (u % 64)>>
                     \o Utf8Bytes(Tail(s))

\* the character of a base64 value
Base64Char(v) ==
    IF v < 26 THEN v + 65
    ELSE IF v < 52 THEN v + 71
    ELSE IF v < 62 THEN v - 4
    ELSE IF v = 62 THEN 43
    ELSE 47

\* buf.toString('base64'), padded
ToBase64(buf) ==
    LET groups == (Len(buf) + 2) \div 3
        At(j) == IF j <= Len(buf) THEN buf[j] ELSE 0
    IN [p \in 1 .. 4 * groups |->
           LET g == 3 * ((p - 1) \div 4)
               o == (p - 1) % 4
           IN IF o = 0 THEN Base64Char(At(g + 1) \div 4)
              ELSE IF o = 1 THEN Base64Char((At(g + 1) % 4) * 16 + At(g + 2) \div 16)
              ELSE IF o = 2 THEN
                  IF g + 2 > Len(buf) THEN 61
                  ELSE Base64Char((At(g + 2) % 16) * 4 + At(g + 3) \div 64)
              ELSE IF g + 3 > Len(buf) THEN 61
              ELSE Base64Char(At(g + 3) % 64)]

(***************************************************************************)
(* The codec on its own: a string is encoded, the encoded text may be      *)
(* damaged at either step, and k0 decodes it.                              *)
(***************************************************************************)
\* the characters of the strings: { } e-acute, the euro sign and U+1F600,
\* of one, one, two, three and four UTF-8 bytes
Characters == {<<123>>, <<125>>, <<233>>, <<8364>>, <<55357, 56832>>}

RECURSIVE StringsOf(_)
StringsOf(n) ==
    IF n = 0 THEN {<<>>}
    ELSE StringsOf(n - 1) \cup {s \o c : s \in StringsOf(n - 1), c \in Characters}

\* malformed base64: a character outside the alphabet ('$', 36) at position p, or the
\* text cut short by its first character
Malformations(s) ==
    {SubSeq(s, 1, p) \o <<36>> \o SubSeq(s, p + 1, Len(s)) : p \in 0 .. Len(s)}
        \cup (IF s = <<>> THEN {} ELSE {Tail(s)})

Codec(pc, s, inner, input, malformed, out) ==
    [pc |-> pc, s |-> s, inner |-> inner, input |-> input,
     malformed |-> malformed, out |-> out]

Inner ==
    /\ dec.pc = "string"
    /\ dec' = [dec EXCEPT !.pc = "inner", !.inner = ToBase64(Utf8Bytes(reverse(dec.s)))]
    /\ UNCHANGED <<cacheVars, req>>

MalformInner ==
    /\ dec.pc = "inner"
    /\ ~dec.malformed
    /\ \E bad \in Malformations(dec.inner) :
           dec' = [dec EXCEPT !.inner = bad, !.malformed = TRUE]
    /\ UNCHANGED <<cacheVars, req>>

Outer ==
    /\ dec.pc = "inner"
    /\ dec' = [dec EXCEPT !.pc = "outer", !.input = reverse(ToBase64(reverse(dec.inner)))]
    /\ UNCHANGED <<cacheVars, req>>

MalformOuter ==
    /\ dec.pc = "outer"
    /\ ~dec.malformed
    /\ \E bad \in Malformations(dec.input) :
           dec' = [dec EXCEPT !.input = bad, !.malformed = TRUE]
    /\ UNCHANGED <<cacheVars, req>>

Decode ==
    /\ dec.pc = "outer"
    /\ dec' = [dec EXCEPT !.pc = "decoded", !.out = k0(dec.input)]
    /\ UNCHANGED <<cacheVars, req>>

InitCodec ==
    /\ now = 1
    /\ cachedPlaylist = NULL
    /\ lastFetchTime = 0
    /\ isUpdating = FALSE
    /\ runs = <<>>
    /\ nCalls = 0
    /\ lastReply = NoReply
    /\ lastRun = NoRun
    /\ req = IdleReq
    /\ \E s \in StringsOf(MaxChars) : dec = Codec("string", s, <<>>, <<>>, FALSE, <<>>)

NextCodec ==
    \/ Inner
    \/ MalformInner
    \/ Outer
    \/ MalformOuter
    \/ Decode

SpecCodec == InitCodec /\ [][NextCodec]_vars

(***************************************************************************)
(* The manifest rewriting on its own: the text transformation of each      *)
(* handler applied to one manifest text.                                   *)
(***************************************************************************)
\* the playlists: the lines of HlsItems and two more tags with a URI
Playlists ==
    SeqsUpTo(HlsItems \cup {Item("#EXT-X-MAP", "rel"), Item("#EXT-X-MEDIA", "rel")},
             MaxItems)

\* the elements below the root of an MPD: those of MpdItems, a <BaseURL> with
\* an attribute, a <ContentProtection> with children and a <Representation>
MpdElements ==
    { Item("BaseURL", "abs"), Item("BaseURL", "rel"), Item("BaseURL", "bad"),
      Item("BaseURL serviceLocation", "rel"),
      Item("ContentProtection", "kid"), Item("ContentProtection", "block"),
      Item("AdaptationSet", "none"), Item("Representation", "none") }

\* the MPDs: a root, <MPD ...> or <dash:MPD ...>, and the elements below it
Mpds ==
    {<<root>> \o elements :
        root \in {Item("MPD", "none"), Item("dash:MPD", "none")},
        elements \in SeqsUpTo(MpdElements, MaxItems)}

RewriteManifest ==
    /\ dec.pc = "manifest"
    /\ dec' = [dec EXCEPT !.pc = "rewritten",
                          !.result = Rewrite(dec.route, dec.isM3u8, dec.drm, dec.text)]
    /\ UNCHANGED <<cacheVars, req>>

InitManifest ==
    /\ now = 1
    /\ cachedPlaylist = NULL
    /\ lastFetchTime = 0
    /\ isUpdating = FALSE
    /\ runs = <<>>
    /\ nCalls = 0
    /\ lastReply = NoReply
    /\ lastRun = NoRun
    /\ req = IdleReq
    \* the rewriter is one of the three routes or unnamed/part_002;
    \* stream/route.ts does not read the drm parameter
    /\ \E route \in Routes \cup {"unnamed"}, isM3u8 \in BOOLEAN :
         \E drm \in IF route = "stream" THEN {"none"} ELSE {"none", "clearkey"},
            text \in IF isM3u8 THEN Playlists ELSE Mpds :
              dec = [pc |-> "manifest", route |-> route, isM3u8 |-> isM3u8,
                     drm |-> drm, text |-> text, result |-> Thrown]

NextManifest == RewriteManifest

SpecManifest == InitManifest /\ [][NextManifest]_vars

(***************************************************************************)
(* The outbound headers on their own.  A header's value is named by the    *)
(* source it was taken from: "bundle" (p_headers), "query" (a query        *)
(* parameter), "default" (the route's built-in constants), "android" (the  *)
(* Android constants of proxy/route.ts), "domain" (the Trans Media         *)
(* override), "incoming" (the inbound request's header), a literal the     *)
(* handler sets, or "absent".  A query parameter is "" when it is not      *)
(* given and may be the word none.                                         *)
(***************************************************************************)
\* the custom-header bundle: absent, not decodable, or the names it defines
Bundles ==
    { [valid |-> FALSE, names |-> {}],
      [valid |-> FALSE, names |-> {"User-Agent"}],
      [valid |-> TRUE, names |-> {"User-Agent"}],
      [valid |-> TRUE, names |-> {"Referer", "Origin"}],
      [valid |-> TRUE, names |-> {"Range", "Accept"}] }

Inbound ==
    [ route : Routes,
      url : { "https://cdn.example/live/index.m3u8", "https://cdn.example/live/seg.ts",
              "https://cdn.example/live/stream.flv",
              "https://video.transtv.co.id/live/index.m3u8" },
      referer : {"", "none", "given"}, origin : {"", "given"}, user_agent : {"", "given"},
      android : BOOLEAN, p_headers : Bundles, range : BOOLEAN, accept : BOOLEAN ]

\* searchParams.get(name) || DEFAULT
OrDefault(param) == IF param = "" THEN "default" ELSE "query"

\* proxy/route.ts:27-43
ProxyOutbound(in) ==
    [ UserAgent |-> IF in.android THEN "android" ELSE OrDefault(in.user_agent),
      Referer   |-> IF in.android
                    THEN IF in.referer \notin {"", "none"} THEN "query" ELSE "android"
                    ELSE IF in.referer = "none" THEN "absent" ELSE OrDefault(in.referer),
      Origin    |-> IF in.origin = "none" THEN "absent" ELSE OrDefault(in.origin),
      Range     |-> IF in.range THEN "incoming" ELSE "absent",
      Accept    |-> IF in.accept THEN "incoming" ELSE "absent" ]

\* stream/route.ts:38-97: the constants, the Trans Media override, the
\* bundle, then the headers the handler sets after the bundle
StreamOutbound(in) ==
    LET bundle == IF in.p_headers.valid THEN in.p_headers.names ELSE {}
        isManifest == UrlIncludes(in.url, ".m3u8") \/ UrlIncludes(in.url, ".mpd")
        isFlv == UrlIncludes(in.url, ".flv")
        overridden == IF UrlIncludes(in.url, "transtv") THEN "domain" ELSE "default"
    IN [ UserAgent |-> IF "User-Agent" \in bundle THEN "bundle" ELSE "default",
         Referer   |-> IF "Referer" \in bundle THEN "bundle" ELSE overridden,
         Origin    |-> IF "Origin" \in bundle THEN "bundle" ELSE overridden,
         Range     |-> IF in.range THEN "incoming"
                       ELSE IF ~isManifest /\ ~isFlv THEN "bytes=0-"
                       ELSE IF "Range" \in bundle THEN "bundle" ELSE "absent",
         Accept    |-> IF in.accept THEN "incoming" ELSE "*/*" ]

\* proxy/[[...path]]/route.ts:35-46
CatchAllOutbound(in) ==
    [ UserAgent |-> OrDefault(in.user_agent),
      Referer   |-> OrDefault(in.referer),
      Origin    |-> OrDefault(in.origin),
      Range     |-> IF in.range THEN "incoming" ELSE "absent",
      Accept    |-> IF in.accept THEN "incoming" ELSE "absent" ]

OutboundHeaders(in) ==
    CASE in.route = "proxy"  -> ProxyOutbound(in)
      [] in.route = "stream" -> StreamOutbound(in)
      [] OTHER               -> CatchAllOutbound(in)

BuildHeaders ==
    /\ dec.pc = "received"
    /\ dec' = [dec EXCEPT !.pc = "built", !.headers = OutboundHeaders(dec.request)]
    /\ UNCHANGED <<cacheVars, req>>

InitHeaders ==
    /\ now = 1
    /\ cachedPlaylist = NULL
    /\ lastFetchTime = 0
    /\ isUpdating = FALSE
    /\ runs = <<>>
    /\ nCalls = 0
    /\ lastReply = NoReply
    /\ lastRun = NoRun
    /\ req = IdleReq
    /\ \E in \in Inbound :
         dec = [pc |-> "received", request |-> in, headers |-> CatchAllOutbound(in)]

NextHeaders == BuildHeaders

SpecHeaders == InitHeaders /\ [][NextHeaders]_vars

(***************************************************************************)
(* Properties of the playlist cache.                                       *)
(***************************************************************************)
\* the background refreshes that have started and not yet run their finally block
BgInFlight == {r \in DOMAIN runs : runs[r].pc # "done" /\ runs[r].bg}

\* the step is the arrival of a GET /api/playlist request
CallStep == nCalls' = nCalls + 1

\* the step started a performFetch run
RunStarted == Len(runs') = Len(runs) + 1

\* the arriving request asked for refresh=true
ForcedCallStep ==
    /\ CallStep
    /\ \/ RunStarted /\ runs'[Len(runs')].force
       \/ lastReply'.call = nCalls' /\ lastReply'.force

\* the cached snapshot is older than the freshness window
Stale == cachedPlaylist # NULL /\ now - lastFetchTime >= CACHE_DURATION

\* C1: a non-forced call on a stale cache is answered at once with the old
\* snapshot, leaves the cache as it is, starts one background refresh when none
\* is running and none when one is; at most one background refresh is ever in
\* flight.
C1_StaleServedOneRefresh ==
    /\ [](Cardinality(BgInFlight) <= 1)
    /\ [][(CallStep /\ ~ForcedCallStep /\ Stale) =>
            /\ lastReply'.call = nCalls'
            /\ lastReply'.value = Ref(cachedPlaylist)
            /\ lastReply'.status = 200
            /\ cachedPlaylist' = cachedPlaylist
            /\ lastFetchTime' = lastFetchTime
            /\ IF BgInFlight = {}
               THEN RunStarted /\ runs'[Len(runs')].bg /\ Cardinality(BgInFlight') = 1
               ELSE runs' = runs]_vars

\* a third request arrived stale while the refresh started by the second was
\* still running, and started nothing
C1_Witness ==
    /\ nCalls = 3
    /\ Len(runs) = 2
    /\ BgInFlight = {2}
    /\ lastReply.call = 3
    /\ lastReply.path = "stale"
    /\ lastReply.value = 1

\* C2: when both category payload fetches of a run fail, the run reports
\* failure and leaves the cached snapshot and its timestamp as they were.
C2_FailedFetchKeepsCache ==
    [][(lastRun' # lastRun /\ lastRun'.idChannels = NULL /\ lastRun'.evChannels = NULL) =>
          /\ lastRun'.result = 0
          /\ cachedPlaylist' = cachedPlaylist
          /\ lastFetchTime' = lastFetchTime]_vars

\* C3: the cache slot is empty (and the timestamp zero), or it holds the object
\* one run built, all of whose fields and whose timestamp come from that run.
C3_SnapshotFromOneRun ==
    IF cachedPlaylist = NULL
    THEN lastFetchTime = 0 /\ lastRun = NoRun
    ELSE /\ lastRun.run = cachedPlaylist.run
         /\ cachedPlaylist.indonesia = OrEmpty(lastRun.idChannels)
         /\ cachedPlaylist.event = OrEmpty(lastRun.evChannels)
         /\ cachedPlaylist.version = lastRun.version
         /\ cachedPlaylist.lastUpdated <= lastFetchTime
         /\ lastFetchTime <= now

\* the run that started second committed first, with one category failed,
\* while the first is still fetching
C3_Witness ==
    /\ Len(runs) >= 2
    /\ runs[1].pc = "payloads"
    /\ cachedPlaylist # NULL
    /\ cachedPlaylist.run = 2
    /\ cachedPlaylist.indonesia = <<>>
    /\ cachedPlaylist.event = <<"EV">>

\* the step is a non-forced call while the cached snapshot is inside the window
FreshCallStep ==
    /\ CallStep
    /\ ~ForcedCallStep
    /\ cachedPlaylist # NULL
    /\ now - lastFetchTime < CACHE_DURATION

\* C4: a non-forced call inside the freshness window is answered with the
\* cached object itself and starts no fetch, foreground or background.
C4_FreshServedNoFetch ==
    [][FreshCallStep =>
          /\ lastReply'.call = nCalls'
          /\ lastReply'.value = Ref(cachedPlaylist)
          /\ lastReply'.status = 200
          /\ runs' = runs
          /\ isUpdating' = isUpdating
          /\ cachedPlaylist' = cachedPlaylist
          /\ lastFetchTime' = lastFetchTime]_vars

\* the second and third requests both arrived inside the window of the
\* snapshot the first one fetched; the third at its last fresh instant
C4_Witness ==
    /\ nCalls = 3
    /\ Len(runs) = 1
    /\ lastReply.call = 3
    /\ lastReply.path = "fresh"
    /\ lastReply.value = 1
    /\ Ref(cachedPlaylist) = 1
    /\ now = lastFetchTime + CACHE_DURATION - 1

\* C5: a call on an empty cache, or a forced call, starts a performFetch run of
\* its own and is not answered in that step; the answer it gets later is the
\* object that very run built, after the run has returned.
C5_FetchAwaited ==
    /\ [][(CallStep /\ (cachedPlaylist = NULL \/ ForcedCallStep)) =>
            /\ RunStarted
            /\ ~runs'[Len(runs')].bg
            /\ runs'[Len(runs')].caller = nCalls'
            /\ runs'[Len(runs')].pc = "version"
            /\ lastReply' = lastReply]_vars
    /\ [][\A r \in DOMAIN runs :
            (/\ runs[r].pc # "done"
             /\ ~runs[r].bg
             /\ lastReply' # lastReply
             /\ lastReply'.call = runs[r].caller) =>
                /\ runs[r].pc = "returned"
                /\ lastReply'.value = r
                /\ lastReply'.status = 200]_vars

\* a forced request has been answered with the snapshot of its own run although
\* the cache already holds the snapshot of another run
C5_Witness ==
    /\ lastReply.path = "fetch"
    /\ lastReply.force
    /\ lastReply.value # 0
    /\ cachedPlaylist # NULL
    /\ Ref(cachedPlaylist) # lastReply.value

\* C6: every run that returns has built a snapshot (one failed category does
\* not fail the run), and each category that succeeded is in it unchanged.
C6_BranchesIndependent ==
    lastRun.run # 0 =>
        /\ lastRun.result = lastRun.run
        /\ Ref(cachedPlaylist) = lastRun.run
        /\ (lastRun.idChannels # NULL =>
                cachedPlaylist.indonesia = lastRun.idChannels.channels)
        /\ (lastRun.evChannels # NULL =>
                cachedPlaylist.event = lastRun.evChannels.channels)

\* the ID payload failed, the EV payload succeeded and is in the snapshot
C6_Witness ==
    /\ lastRun.run # 0
    /\ lastRun.idChannels = NULL
    /\ lastRun.evChannels # NULL
    /\ Ref(cachedPlaylist) = lastRun.run
    /\ cachedPlaylist.indonesia = <<>>
    /\ cachedPlaylist.event = <<"EV">>

(***************************************************************************)
(* Properties of the stream proxies.                                       *)
(***************************************************************************)
\* the upstream has answered the request and the handler has responded
Answered == req.pc = "responded" /\ req.fetch.state = "answered"

\* the handler detected the upstream answer as an HLS playlist
DetectedM3u8 == IsM3u8(req.request.route, req.request.url, req.fetch.contentType)

\* the handler detected the upstream answer as a DASH manifest
DetectedMpd == ~DetectedM3u8 /\ IsMpd(req.request.route, req.request.url, req.fetch.contentType)

\* the item carries a URL a player cannot fetch through the proxied location
NeedsRewriting(item) == item.val \in {"rel", "bad"}

WellFormedHls(text) == \A i \in DOMAIN text : text[i] \in HlsItems

WellFormedMpd(text) ==
    /\ text # <<>>
    /\ text[1].tag \in {"MPD", "dash:MPD"}
    /\ \A i \in 2 .. Len(text) : text[i] \in MpdItems /\ text[i].tag \notin {"MPD", "dash:MPD"}

FullyRewritten(text) == \A i \in DOMAIN text : ~NeedsRewriting(text[i])

\* C7: a GET whose upstream answer is detected as a manifest is answered with
\* the fully rewritten manifest (an MPD with an absolute BaseURL) or with
\* HTTP 500, never with a manifest part of which still needs rewriting.
C7_ManifestRewrittenOr500 ==
    (/\ Answered
     /\ req.request.method = "GET"
     /\ Ok(req.fetch.status)
     /\ \/ DetectedM3u8 /\ WellFormedHls(req.fetch.body)
        \/ DetectedMpd /\ WellFormedMpd(req.fetch.body)) =>
        \/ req.response.status = 500
        \/ /\ FullyRewritten(req.response.body)
           /\ DetectedMpd => HasBaseURL(req.response.body)

\* C8: a network-level failure of the upstream fetch is answered with HTTP 502
\* and a JSON body that has an error field and no stack, whatever the message.
C8_NetworkFailure502 ==
    (req.pc = "responded" /\ req.fetch.state = "failed") =>
        /\ req.response.status = 502
        /\ req.response.kind = "json"
        /\ "error" \in req.response.keys
        /\ "stack" \notin req.response.keys

\* C9: an upstream non-2xx answer is handed on with its status and its body
\* unchanged, also when the target looks like a manifest.
C9_NonOkPassedThrough ==
    (Answered /\ ~Ok(req.fetch.status)) =>
        /\ req.response.status = req.fetch.status
        /\ req.response.body = req.fetch.body

\* C10: once the client is gone no upstream fetch is left in flight, and the
\* abort is not reported as a proxy error.
C10_AbortCancelsUpstream ==
    req.client = "gone" =>
        /\ req.fetch.state # "inflight"
        /\ req.pc = "responded" =>
              /\ req.response.status \notin {500, 502}
              /\ req.response.log # "error"

\* C11: every response of the proxy routes carries Access-Control-Allow-Origin,
\* on every path, and an OPTIONS request is answered 200 or 204 with an empty
\* body.
C11_CorsOnEveryResponse ==
    req.pc = "responded" =>
        /\ "Access-Control-Allow-Origin" \in req.response.headers
        /\ req.request.method = "OPTIONS" =>
              /\ req.response.status \in {200, 204}
              /\ req.response.kind = "null"
              /\ req.response.body = <<>>

(***************************************************************************)
(* Properties of the payload decoding.                                     *)
(***************************************************************************)
\* the text is k prefix characters followed by a correctly encoded JSON object
Constructed(blob) ==
    blob.k >= 0 /\ blob.k < OFFSET_CEILING /\ blob.text.kind = "object"

\* no offset of the text yields parseable JSON
NothingDecodes(blob) ==
    \A i \in 0 .. OFFSET_CEILING - 1 : ~Parses(Decoded(blob, i))

\* C12: on k prefix characters followed by the encoded J, for every k below
\* 1000, the scanner recovers offset k and the JSON J.
C12_ScannerRecoversOffset ==
    (dec.pc \in {"fetched", "scanned"} /\ Constructed(dec.blob)) =>
        /\ dec.result.offset = dec.blob.k
        /\ dec.result.json = dec.blob.text.json

\* C13: a payload that is plain JSON of a recognized shape is returned
\* unchanged without a run of the codec, and its channels are the result.
C13_PlainJsonUnchanged ==
    (dec.pc = "fetched" /\ dec.blob.plain # NotJson) =>
        /\ dec.result.tried = 0
        /\ dec.result.json = dec.blob.plain
        /\ dec.channels = [channels |-> dec.blob.plain.list]

\* C14: when no offset yields valid JSON the scanner's result is null, and the
\* caller does not count the category as fetched.
C14_ScanFailureIsNull ==
    (dec.pc \in {"fetched", "scanned"} /\ NothingDecodes(dec.blob)) =>
        /\ dec.result.json = Json("null", <<>>)
        /\ dec.pc = "fetched" => dec.channels = NULL

(***************************************************************************)
(* Properties of the codec.                                                *)
(***************************************************************************)
\* C15: decoding the encoding of a string gives the string back, for every
\* string, the ones with characters outside the BMP included.
C15_RoundTrip ==
    (dec.pc = "decoded" /\ ~dec.malformed) => dec.out = dec.s

\* C16: malformed base64 at either step makes the codec return the empty
\* string, never a partial result.
C16_MalformedGivesEmpty ==
    (dec.pc = "decoded" /\ dec.malformed) => dec.out = <<>>

(***************************************************************************)
(* Properties of the manifest rewriting.                                   *)
(***************************************************************************)
RewrittenHls == dec.pc = "rewritten" /\ dec.isM3u8 /\ dec.result.ok

RewrittenMpd == dec.pc = "rewritten" /\ ~dec.isM3u8 /\ dec.result.ok

\* C17: the HLS rewriting replaces every line that is not empty and not a
\* comment, relative or absolute, by a proxy URL for the resolved line.
C17_HlsLinesBecomeProxyUrls ==
    RewrittenHls =>
        \A i \in DOMAIN dec.text :
            (dec.text[i].tag = "line" /\ dec.text[i].val \in {"abs", "rel"}) =>
                dec.result.text[i] = Item("line", "proxied")

\* C18: the HLS rewriting leaves a '#' line without a URI attribute as it is,
\* and in every tag line with a URI attribute, whatever the tag, rewrites the
\* attribute value and nothing else.
C18_TagLinesKeptUriRewritten ==
    RewrittenHls =>
        \A i \in DOMAIN dec.text :
            IsTagLine(dec.text[i]) =>
                /\ dec.result.text[i].tag = dec.text[i].tag
                /\ dec.text[i].val \in {"none", "abs"} => dec.result.text[i] = dec.text[i]
                /\ dec.text[i].val = "rel" => dec.result.text[i].val \in {"resolved", "proxied"}

IsContentProtection(item) == item.tag = "ContentProtection"
IsClearKey(item) == item.tag = "ClearKey"
IsAdaptationSet(item) == item.tag = "AdaptationSet"
IsBaseURL(item) == item.tag \in {"BaseURL", "BaseURL serviceLocation"}
Untouched(item) == item.tag \in {"MPD", "dash:MPD", "AdaptationSet", "Representation"}

\* C19: with drm=clearkey the DASH rewriting removes every ContentProtection
\* element and nothing else, and leaves exactly one ClearKey ContentProtection
\* (scheme e2719d58-...) inside every AdaptationSet.
C19_ClearKeyInEveryAdaptationSet ==
    (RewrittenMpd /\ dec.drm = "clearkey") =>
        LET out == dec.result.text
        IN /\ SelectSeq(out, IsContentProtection) = <<>>
           /\ SelectSeq(out, Untouched) = SelectSeq(dec.text, Untouched)
           /\ \A i \in DOMAIN out :
                  IsAdaptationSet(out[i]) => i < Len(out) /\ IsClearKey(out[i + 1])
           /\ Len(SelectSeq(out, IsClearKey)) = Len(SelectSeq(out, IsAdaptationSet))

\* C20: after the DASH rewriting the manifest has a BaseURL element and the
\* content of every BaseURL is absolute; a manifest without one gets exactly
\* one, right after the opening MPD tag.
C20_BaseUrlAbsolute ==
    RewrittenMpd =>
        LET out == dec.result.text
        IN /\ SelectSeq(out, IsBaseURL) # <<>>
           /\ \A i \in DOMAIN out : IsBaseURL(out[i]) => ~NeedsRewriting(out[i])
           /\ SelectSeq(dec.text, IsBaseURL) = <<>> =>
                  /\ Len(SelectSeq(out, IsBaseURL)) = 1
                  /\ IsBaseURL(out[2])

(***************************************************************************)
(* Properties of the outbound headers.                                     *)
(***************************************************************************)
\* the header is taken from the bundle when the bundle defines it, else from
\* its query parameter when that is given (the word none asks for no header)
Honours(in, name, param, value) ==
    IF in.p_headers.valid /\ name \in in.p_headers.names THEN value = "bundle"
    ELSE param # "" => (value = "query" \/ (param = "none" /\ value = "absent"))

\* C21: an outbound header is taken from the highest-priority source that
\* defines it: the bundle, then the query parameter, then a built-in profile;
\* nothing of lower priority replaces a value given by a higher one.
C21_HeaderPriority ==
    dec.pc = "built" =>
        LET in == dec.request
            out == dec.headers
        IN /\ Honours(in, "User-Agent", in.user_agent, out.UserAgent)
           /\ Honours(in, "Referer", in.referer, out.Referer)
           /\ Honours(in, "Origin", in.origin, out.Origin)
           /\ ~in.range => Honours(in, "Range", "", out.Range)
           /\ ~in.accept => Honours(in, "Accept", "", out.Accept)

\* C22: the outbound Range is the incoming one whenever there is one; without
\* one it is bytes=0- exactly if the target is neither a manifest nor FLV,
\* and there is none for manifests and FLV (the bundle defining none).
C22_RangeForwardedOrForced ==
    (dec.pc = "built" /\ "Range" \notin dec.request.p_headers.names) =>
        LET in == dec.request
            media == /\ ~UrlIncludes(in.url, ".m3u8") /\ ~UrlIncludes(in.url, ".mpd")
                     /\ ~UrlIncludes(in.url, ".flv")
        IN dec.headers.Range =
               IF in.range THEN "incoming" ELSE IF media THEN "bytes=0-" ELSE "absent"

(***************************************************************************)
(* The proxies beside the playlist cache.  The route files import nothing  *)
(* of bittv.ts; the process they run in holds the module state of          *)
(* bittv.ts:276-278,316 in whatever condition the playlist requests left   *)
(* it: never filled, filled and fresh, or stale with a background refresh  *)
(* under way.                                                              *)
(***************************************************************************)
CacheStates ==
    LET data == BuildSnapshot(1, "v217", [channels |-> <<"ID">>], NULL, 1)
        first == RunRecord(1, "v217", [channels |-> <<"ID">>], NULL, 1)
    IN { [now |-> 1, cachedPlaylist |-> NULL, lastFetchTime |-> 0, isUpdating |-> FALSE,
          runs |-> <<>>, nCalls |-> 0, lastReply |-> NoReply, lastRun |-> NoRun],
         [now |-> 1, cachedPlaylist |-> data, lastFetchTime |-> 1, isUpdating |-> FALSE,
          runs |-> <<DONE>>, nCalls |-> 1,
          lastReply |-> Response(1, FALSE, "fetch", 1), lastRun |-> first],
         [now |-> 1 + CACHE_DURATION, cachedPlaylist |-> data, lastFetchTime |-> 1,
          isUpdating |-> TRUE, runs |-> <<DONE, NewRun(TRUE, 0, FALSE)>>, nCalls |-> 2,
          lastReply |-> Response(2, FALSE, "stale", 1), lastRun |-> first] }

InitIsolated ==
    /\ \E c \in CacheStates :
          /\ now = c.now
          /\ cachedPlaylist = c.cachedPlaylist
          /\ lastFetchTime = c.lastFetchTime
          /\ isUpdating = c.isUpdating
          /\ runs = c.runs
          /\ nCalls = c.nCalls
          /\ lastReply = c.lastReply
          /\ lastRun = c.lastRun
    /\ req = IdleReq
    /\ dec = IdleDec

SpecIsolated == InitIsolated /\ [][NextProxy]_vars

(***************************************************************************)
(* The life of one proxy request.                                          *)
(***************************************************************************)
\* a request is taken up by a handler in this step
Taken == req.pc = "idle" /\ req'.pc # "idle"

\* the request taken up asks for a target: it is no preflight and has a url
AsksTarget == req'.request.method # "OPTIONS" /\ req'.request.url # NO_URL

\* the response is produced in this step
Responds == req.pc # "responded" /\ req'.pc = "responded"

\* the text of the upstream body is read and a text response made from it
Rewrites == req.pc = "reading" /\ Responds /\ req'.fetch.state = "answered"

\* the order of one request's steps that every handler keeps: the body is
\* read only after the upstream answered, a body handed on was never read,
\* a rewritten text was read first, and a response is followed by nothing
\* but the end of the request
OrderKept ==
    /\ (req.pc # "reading" /\ req'.pc = "reading") =>
          req.pc = "fetching" /\ req'.fetch.state = "answered"
    /\ (Responds /\ req'.response.kind = "stream") =>
          req.pc = "fetching" /\ req'.fetch.state = "answered"
    /\ Rewrites => req.fetch.state = "answered" /\ req'.response.kind = "text"
    /\ req.pc = "responded" => req' = IdleReq
    /\ req'.pc \in {"idle", "fetching", "reading"} => req'.response = NoResponse

C24_EveryOffsetTried ==
    dec.pc \in {"fetched", "scanned"} =>
        LET n == IF dec.blob.len < OFFSET_CEILING THEN dec.blob.len ELSE OFFSET_CEILING
            rank(i) == IF i = COMMON_OFFSET THEN 0 ELSE i + 1
            hits == {i \in 0 .. n - 1 : Parses(Decoded(dec.blob, i))}
        IN IF dec.result.offset = -1
           THEN hits = {} /\ dec.result.tried >= n
           ELSE /\ dec.result.offset \in hits
                /\ \A i \in hits : rank(dec.result.offset) <= rank(i)

\* C25: in every full fetch no category payload request is issued before
\* that fetch's version resolution has completed, by success or by fallback,
\* and both payload requests use the version that step produced
C25_PayloadsAfterVersion ==
    \A r \in DOMAIN runs :
        /\ runs[r].pc = "version" => runs[r].requests = {} /\ runs[r].version = ""
        /\ runs[r].pc = "payloads" =>
              /\ runs[r].version \in VersionResults
              /\ runs[r].requests = { PayloadUrl(runs[r].version, file) :
                                         file \in {"ID.json", "EV.json"} }

\* two overlapping fetches resolved different versions and each asks for its own
C25_Witness ==
    \E r1, r2 \in DOMAIN runs :
        /\ runs[r1].pc = "payloads" /\ runs[r2].pc = "payloads"
        /\ runs[r1].version = FALLBACK_VERSION
        /\ runs[r2].version # FALLBACK_VERSION
        /\ runs[r2].requests # {}

Completes(r) == r \in DOMAIN runs /\ runs[r].pc = "payloads" /\ runs'[r].pc = "returned"

\* C28: when full fetches overlap, the snapshot in the cache after they have
\* finished is the one written by the fetch that completed last, whatever
\* the order they started in and whatever version each resolved
C28_LastCompletedWins ==
    /\ [][\A r \in RunIds : Completes(r) =>
             /\ cachedPlaylist'.run = r
             /\ cachedPlaylist'.version = runs[r].version
             /\ cachedPlaylist'.lastUpdated = now
             /\ lastFetchTime' = now]_vars
    /\ [][cachedPlaylist' # cachedPlaylist => \E r \in RunIds : Completes(r)]_vars

\* two full fetches overlapped; the one that started first completed last,
\* with the fallback version, and its snapshot is the one left in the cache
C28_Witness ==
    /\ Len(runs) = 2
    /\ runs[1].pc \in {"returned", "done"}
    /\ runs[2].pc \in {"returned", "done"}
    /\ lastRun.run = 1
    /\ cachedPlaylist # NULL
    /\ cachedPlaylist.run = 1
    /\ cachedPlaylist.version = FALLBACK_VERSION

\* C29: the in-flight flag guards background refreshes only.  Every call
\* that finds the cache empty or asks for a forced refresh starts a full
\* fetch of its own, however many are already running, and neither reads nor
\* sets isUpdating; a stale non-forced call that arrives while a forced
\* fetch is running still starts a background refresh
C29_FlagGuardsBackgroundOnly ==
    [][ /\ (CallStep /\ (ForcedCallStep \/ cachedPlaylist = NULL)) =>
              /\ RunStarted
              /\ runs'[Len(runs')] = NewRun(FALSE, nCalls', ForcedCallStep)
              /\ \A r \in DOMAIN runs : runs'[r] = runs[r]
              /\ isUpdating' = isUpdating
        /\ (CallStep /\ ~ForcedCallStep /\ Stale /\ ~isUpdating) =>
              /\ RunStarted
              /\ runs'[Len(runs')] = NewRun(TRUE, 0, FALSE)
              /\ isUpdating' ]_vars

\* a forced fetch is running, the flag was down, and the stale call that
\* arrived meanwhile has started a background refresh beside it
C29_Witness ==
    \E f, b \in DOMAIN runs :
        /\ f < b
        /\ runs[f].pc # "done" /\ ~runs[f].bg /\ runs[f].force
        /\ runs[b].pc # "done" /\ runs[b].bg
        /\ isUpdating

\* C30: once the cache slot holds a snapshot it never becomes empty again;
\* lastFetchTime never decreases; lastFetchTime is above zero exactly when a
\* snapshot is cached, and is never earlier than that snapshot's lastUpdated
C30_CacheMonotone ==
    /\ [][cachedPlaylist # NULL => cachedPlaylist' # NULL]_vars
    /\ [][lastFetchTime' >= lastFetchTime]_vars
    /\ [](lastFetchTime > 0 <=> cachedPlaylist # NULL)
    /\ [](cachedPlaylist # NULL => lastFetchTime >= cachedPlaylist.lastUpdated)

\* a later fetch found neither category and still replaced the snapshot, one
\* freshness window after the first was stored
C30_Witness ==
    /\ cachedPlaylist # NULL
    /\ cachedPlaylist.run > 1
    /\ lastRun.idChannels = NULL /\ lastRun.evChannels = NULL
    /\ lastFetchTime >= 1 + CACHE_DURATION
    /\ cachedPlaylist.lastUpdated = lastFetchTime


=============================================================================
